---- MODULE Spec2Model ----
(***************************************************************************)
(* Voice-session orchestrator of ZOS (the LiveAssistant component) and the *)
(* host capabilities it calls (the App component).                         *)
(*                                                                         *)
(* Every handler of the component is one action.  An async handler is cut  *)
(* at its awaits: handleStartListening at `await getUserMedia`, onmessage  *)
(* at `await decodeAudioData`; the part after an await is an action of its *)
(* own.  getUserMedia is settled by the browser, so any handler may run    *)
(* before its continuation.  decodeAudioData is a function of the file     *)
(* with no await in its body: the continuation of onmessage is a job that  *)
(* is already queued when onmessage returns to the transport, and it runs  *)
(* before the next task of the event loop.  Only what does not wait for a  *)
(* task can come before it: further calls of onmessage the transport makes *)
(* back to back, and the audio thread advancing the clock.                 *)
(*                                                                         *)
(* Callbacks queued with sessionPromiseRef.current.then(...) run at once   *)
(* when the session promise is resolved and are kept in sessQ until it     *)
(* resolves otherwise.                                                     *)
(*                                                                         *)
(* The i-th call of handleStartListening creates input context i, output   *)
(* context i, media stream i and transport session i, so a resource is     *)
(* named by the number of the call that created it and a ref holds such a  *)
(* number, or NullRef.                                                     *)
(***************************************************************************)
EXTENDS Integers, Sequences, FiniteSets, TLC

\* ---------------------------------------------------------------- bounds
MaxStarts == 2
PlayStarts == 1
MaxNow == 1
MaxCursor == 4
MaxPending == 2
MaxBuf == 2
MaxHistory == 3
MaxTimers == 1
MaxQueue == 0
MaxFrames == 3
MaxRequests == 2
MaxContent == 2
MaxPath == 2
MaxLength == 2

NullRef == 0
\* INITIAL_MAX_HISTORY_LENGTH of ./constants
INITIAL_MAX_HISTORY_LENGTH == 2
\* the calls of internalHandleLlmRequest of a run
Requests == 1..MaxRequests

Invocations == 1..MaxStarts
Durations == {1, 2}

VARIABLES
  \* React state of LiveAssistant
  assistantStatus, error,
  \* refs of LiveAssistant
  sessionPromiseRef, inputAudioContextRef, outputAudioContextRef,
  mediaStreamRef, scriptProcessorRef, mediaStreamSourceRef,
  outputSourcesRef, nextStartTimeRef,
  currentInputTranscription, currentOutputTranscription,
  \* resources, by the number of the start that created them
  nStarts, startPc, stream, sess, sessQ, closes, proc, inCtx, outCtx,
  \* onmessage handlers suspended at `await decodeAudioData`, oldest first: the
  \* duration of the buffer and, as history, the clock reading of line 689 (now)
  \* and whether a flush ran since (flushed)
  pendingDecode,
  \* App state
  transcriptionHistory, activeApp, closeTimers, capApp,
  \* the state of App (lines 39-59): the interactions, newest first, the path of
  \* ids from the app to the last interaction, the streamed content as the
  \* requests its chunks belong to, the cache from path keys to content
  interactionHistory, currentAppPath, llmContent, isLoading, isParametersOpen,
  isStatefulnessEnabled, appContentCache, currentMaxHistoryLength,
  \* the calls of internalHandleLlmRequest so far, and where the stream of each is
  nRequests, streamPc,
  \* history: the apps whose 500 ms reset is pending, in the order of the closes
  closing,
  \* history: the cache entries dropped when statefulness was last switched
  dropped,
  \* environment: the browser, the component being mounted, and
  \* outputAudioContextRef.current.currentTime
  webAudio, mounted, currentTime,
  \* capture: the frames onaudioprocess was called with so far, per session the
  \* frames put on its socket, in order, and the last input buffer with the
  \* Int16Array createBlob made of it
  nFrames, wire, inputData, int16,
  \* what the last step did: host capabilities invoked, messages put on a transport
  stepCalls, stepSent,
  \* history: the starts and stops so far, in order (a stop after a stop is not repeated)
  commands,
  \* history: an interrupted message was handled and no source was scheduled since
  afterInterrupt,
  \* history: the speakers with a transcript fragment since the last turnComplete
  \* or start, in the order of their first fragment, closed by "turnComplete"
  \* once the turn is complete
  heard

statusVars == <<assistantStatus, error>>
refVars == <<sessionPromiseRef, inputAudioContextRef, outputAudioContextRef,
             mediaStreamRef, scriptProcessorRef, mediaStreamSourceRef>>
playVars == <<outputSourcesRef, nextStartTimeRef, pendingDecode>>
txVars == <<currentInputTranscription, currentOutputTranscription, transcriptionHistory>>
resVars == <<nStarts, startPc, stream, sess, sessQ, closes, proc, inCtx, outCtx>>
appVars == <<interactionHistory, currentAppPath, llmContent, isLoading, isParametersOpen,
             isStatefulnessEnabled, appContentCache, currentMaxHistoryLength,
             nRequests, streamPc, closing, dropped>>
hostVars == <<activeApp, closeTimers, capApp, appVars>>
envVars == <<webAudio, mounted, currentTime>>
capVars == <<nFrames, wire, inputData, int16>>
stepVars == <<stepCalls, stepSent>>
histVars == <<commands, afterInterrupt, heard>>

\* handleStopListening ran and no start followed it
stopped == commands # <<>> /\ commands[Len(commands)] = "stop"

vars == <<statusVars, refVars, playVars, txVars, resVars, hostVars, envVars,
          capVars, stepVars, histVars>>

\* ---------------------------------------------------------------- helpers
\* no continuation of onmessage is queued: the event loop can take its next task
TaskBoundary == pendingDecode = <<>>

Max(a, b) == IF a >= b THEN a ELSE b

RECURSIVE SumDur(_)
SumDur(q) == IF q = <<>> THEN 0 ELSE Head(q).dur + SumDur(Tail(q))

\* the entry the assistant panel starts with (handleToggleAssistant)
SystemEntry == [speaker |-> "system", text |-> <<"Z">>]

Init ==
  /\ assistantStatus = "idle"
  /\ error = "null"
  /\ sessionPromiseRef = NullRef
  /\ inputAudioContextRef = NullRef
  /\ outputAudioContextRef = NullRef
  /\ mediaStreamRef = NullRef
  /\ scriptProcessorRef = NullRef
  /\ mediaStreamSourceRef = NullRef
  /\ outputSourcesRef = {}
  /\ nextStartTimeRef = 0
  /\ currentInputTranscription = <<>>
  /\ currentOutputTranscription = <<>>
  /\ nStarts = 0
  /\ startPc = [i \in Invocations |-> "none"]
  /\ stream = [i \in Invocations |-> "none"]
  /\ sess = [i \in Invocations |-> "none"]
  /\ sessQ = [i \in Invocations |-> <<>>]
  /\ closes = [i \in Invocations |-> 0]
  /\ proc = [i \in Invocations |-> [st |-> "none", ctx |-> 0, src |-> 0]]
  /\ inCtx = [i \in Invocations |-> "none"]
  /\ outCtx = [i \in Invocations |-> "none"]
  /\ pendingDecode = <<>>
  /\ transcriptionHistory = <<SystemEntry>>
  /\ activeApp = 0
  /\ closeTimers = 0
  /\ capApp = [i \in Invocations |->
                 [app |-> 0, params |-> FALSE, stateful |-> FALSE, cache |-> {},
                  max |-> INITIAL_MAX_HISTORY_LENGTH]]
  /\ interactionHistory = <<>>
  /\ currentAppPath = <<>>
  /\ llmContent = <<>>
  /\ isLoading = FALSE
  /\ isParametersOpen = FALSE
  /\ isStatefulnessEnabled = FALSE
  /\ appContentCache = {}
  /\ currentMaxHistoryLength = INITIAL_MAX_HISTORY_LENGTH
  /\ nRequests = 0
  /\ closing = <<>>
  /\ dropped = 0
  /\ streamPc = [r \in Requests |-> "none"]
  /\ webAudio \in BOOLEAN
  /\ mounted = TRUE
  /\ currentTime = 0
  /\ nFrames = 0
  /\ wire = [i \in Invocations |-> <<>>]
  /\ inputData = <<>>
  /\ int16 = <<>>
  /\ stepCalls = <<>>
  /\ stepSent = <<>>
  /\ commands = <<>>
  /\ afterInterrupt = FALSE
  /\ heard = <<>>

\* ------------------------------------------------- the session promise
\* A callback given to sessionPromiseRef.current.then(...)
Reaction(k, id, name, result) == [k |-> k, id |-> id, name |-> name, result |-> result]
CloseReaction == Reaction("close", 0, "", <<>>)

\* The transports as one value
Transports == [sess |-> sess, sessQ |-> sessQ, closes |-> closes, sent |-> <<>>]

\* session.close(): the socket closes once; closes counts the calls
SessionClose(T, r) == [T EXCEPT !.sess[r] = "closed", !.closes[r] = @ + 1]

\* The callback x runs on the resolved session r: a send reaches the wire
\* only while the socket is open
RunReaction(T, r, x) ==
  IF x.k = "close"
  THEN SessionClose(T, r)
  ELSE IF T.sess[r] = "open"
       THEN [T EXCEPT !.sent = Append(@, [s |-> r, k |-> x.k, id |-> x.id,
                                          name |-> x.name, result |-> x.result])]
       ELSE T

\* if (sessionPromiseRef.current) sessionPromiseRef.current.then(x)
Then(T, r, x) ==
  IF r = NullRef THEN T
  ELSE IF T.sess[r] = "connecting" THEN [T EXCEPT !.sessQ[r] = Append(@, x)]
  ELSE IF T.sess[r] \in {"open", "closed"} THEN RunReaction(T, r, x)
  ELSE T

\* the promise of session r resolves: the queued callbacks run in order
RECURSIVE Drain(_, _)
Drain(T, r) ==
  IF T.sessQ[r] = <<>> THEN T
  ELSE Drain(RunReaction([T EXCEPT !.sessQ[r] = Tail(@)], r, Head(T.sessQ[r])), r)

\* the frames among the messages sent are added to the wire of their session
RECURSIVE OnWire(_, _)
OnWire(w, sent) ==
  IF sent = <<>> THEN w
  ELSE OnWire(IF Head(sent).k = "frame"
              THEN [w EXCEPT ![Head(sent).s] = Append(@, Head(sent).id)] ELSE w,
              Tail(sent))

\* ------------------------------------------------- stopAudioPlayback
\* (variant: the cursor is reset but the registry is not cleared)
FlushedSourcesKept == outputSourcesRef
FlushedSources == IF outputAudioContextRef # NullRef THEN {} ELSE outputSourcesRef
FlushedCursor == IF outputAudioContextRef # NullRef THEN 0 ELSE nextStartTimeRef

\* ------------------------------------------------- stopMicrophone
StoppedStreams ==
  IF mediaStreamRef # NullRef THEN [stream EXCEPT ![mediaStreamRef] = "stopped"] ELSE stream
StoppedProcs ==
  IF scriptProcessorRef # NullRef THEN [proc EXCEPT ![scriptProcessorRef].st = "off"]
  ELSE IF mediaStreamSourceRef # NullRef THEN [proc EXCEPT ![mediaStreamSourceRef].st = "off"]
  ELSE proc

\* ------------------------------------------------- handleStopListening
ClosedCtx(ctx, ref) ==
  IF ref # NullRef /\ ctx[ref] # "closed" THEN [ctx EXCEPT ![ref] = "closed"] ELSE ctx

\* (variant: the ref keeps the session that was closed)
StoppedSessionKept == sessionPromiseRef
\* sessionPromiseRef.current = null (line 725)
StoppedSession == NullRef

handleStopListening ==
  LET T == Then(Transports, sessionPromiseRef, CloseReaction) IN
  /\ assistantStatus' = "idle"
  /\ stream' = StoppedStreams
  /\ proc' = StoppedProcs
  /\ mediaStreamRef' = NullRef
  /\ scriptProcessorRef' = NullRef
  /\ mediaStreamSourceRef' = NullRef
  /\ outputSourcesRef' = FlushedSources
  /\ nextStartTimeRef' = FlushedCursor
  /\ sess' = T.sess
  /\ sessQ' = T.sessQ
  /\ closes' = T.closes
  /\ stepSent' = T.sent
  /\ stepCalls' = <<>>
  /\ sessionPromiseRef' = StoppedSession
  /\ inCtx' = ClosedCtx(inCtx, inputAudioContextRef)
  /\ outCtx' = ClosedCtx(outCtx, outputAudioContextRef)
  /\ commands' = (IF stopped THEN commands ELSE Append(commands, "stop"))
  /\ afterInterrupt' = FALSE
  /\ UNCHANGED <<error, inputAudioContextRef, outputAudioContextRef, pendingDecode, heard,
                 txVars, nStarts, startPc, hostVars, webAudio, currentTime, capVars>>

\* toggleListening, status not idle
ToggleStop ==
  /\ TaskBoundary
  /\ mounted
  /\ assistantStatus # "idle"
  /\ handleStopListening
  /\ UNCHANGED mounted

\* the cleanup of the unmount effect
Unmount ==
  /\ TaskBoundary
  /\ mounted
  /\ handleStopListening
  /\ mounted' = FALSE

\* ------------------------------------------------- handleStartListening
\* What the functions of one render of App close over: handleOpenAppByName,
\* handleAppOpen and handleCloseAppView are made anew at every render and read
\* the state of that render
Render ==
  [app |-> activeApp, params |-> isParametersOpen, stateful |-> isStatefulnessEnabled,
   cache |-> appContentCache, max |-> currentMaxHistoryLength]

\* toggleListening, status idle: handleStartListening up to `await getUserMedia`;
\* limit bounds the number of starts of a run
ToggleStart(limit) ==
  /\ TaskBoundary
  /\ mounted
  /\ assistantStatus = "idle"
  /\ nStarts < limit
  /\ LET i == nStarts + 1 IN
     /\ nStarts' = i
     /\ currentInputTranscription' = <<>>
     /\ currentOutputTranscription' = <<>>
     /\ capApp' = [capApp EXCEPT ![i] = Render]
     /\ commands' = Append(commands, "start")
     /\ afterInterrupt' = FALSE
     /\ heard' = <<>>
     /\ IF webAudio
        THEN /\ assistantStatus' = "listening"
             /\ error' = "null"
             /\ inCtx' = [inCtx EXCEPT ![i] = "running"]
             /\ outCtx' = [outCtx EXCEPT ![i] = "running"]
             /\ inputAudioContextRef' = i
             /\ outputAudioContextRef' = i
             /\ currentTime' = 0
             /\ startPc' = [startPc EXCEPT ![i] = "awaitGUM"]
        ELSE /\ assistantStatus' = "idle"
             /\ error' = "noWebAudio"
             /\ startPc' = [startPc EXCEPT ![i] = "done"]
             /\ UNCHANGED <<inCtx, outCtx, inputAudioContextRef, outputAudioContextRef,
                            currentTime>>
  /\ stepCalls' = <<>>
  /\ stepSent' = <<>>
  /\ UNCHANGED <<sessionPromiseRef, mediaStreamRef, scriptProcessorRef,
                 mediaStreamSourceRef, playVars, transcriptionHistory,
                 stream, sess, sessQ, closes, proc, activeApp, closeTimers, appVars,
                 webAudio, mounted, capVars>>

\* getUserMedia resolves: the stream is kept and ai.live.connect is called
GumResolve(i) ==
  /\ TaskBoundary
  /\ startPc[i] = "awaitGUM"
  /\ startPc' = [startPc EXCEPT ![i] = "done"]
  /\ stream' = [stream EXCEPT ![i] = "live"]
  /\ mediaStreamRef' = i
  /\ sess' = [sess EXCEPT ![i] = "connecting"]
  /\ sessionPromiseRef' = i
  /\ stepCalls' = <<>>
  /\ stepSent' = <<>>
  /\ UNCHANGED <<statusVars, inputAudioContextRef, outputAudioContextRef,
                 scriptProcessorRef, mediaStreamSourceRef, playVars, txVars,
                 nStarts, sessQ, closes, proc, inCtx, outCtx, hostVars, envVars, histVars, capVars>>

\* (variant: the catch block sets the error and leaves the status)
GumRejectKeepsStatus(i) ==
  /\ TaskBoundary
  /\ startPc[i] = "awaitGUM"
  /\ startPc' = [startPc EXCEPT ![i] = "done"]
  /\ error' = "mic"
  /\ assistantStatus' = assistantStatus
  /\ stepCalls' = <<>>
  /\ stepSent' = <<>>
  /\ UNCHANGED <<refVars, playVars, txVars, nStarts, stream, sess, sessQ, closes,
                 proc, inCtx, outCtx, hostVars, envVars, histVars, capVars>>

\* getUserMedia rejects: the catch block
GumReject(i) ==
  /\ TaskBoundary
  /\ startPc[i] = "awaitGUM"
  /\ startPc' = [startPc EXCEPT ![i] = "done"]
  /\ error' = "mic"
  /\ assistantStatus' = "idle"
  /\ stepCalls' = <<>>
  /\ stepSent' = <<>>
  /\ UNCHANGED <<refVars, playVars, txVars, nStarts, stream, sess, sessQ, closes,
                 proc, inCtx, outCtx, hostVars, envVars, histVars, capVars>>

\* the socket of session i opens: onopen runs, then the session promise resolves
SessionOpen(i) ==
  /\ TaskBoundary
  /\ sess[i] = "connecting"
  /\ IF inputAudioContextRef = NullRef \/ mediaStreamRef = NullRef
     THEN UNCHANGED <<mediaStreamSourceRef, scriptProcessorRef, proc>>
     ELSE /\ mediaStreamSourceRef' = i
          /\ scriptProcessorRef' = i
          /\ proc' = [proc EXCEPT ![i] = [st |-> "live", ctx |-> inputAudioContextRef,
                                          src |-> mediaStreamRef]]
  /\ LET T == Drain([Transports EXCEPT !.sess[i] = "open"], i) IN
     /\ sess' = T.sess
     /\ sessQ' = T.sessQ
     /\ closes' = T.closes
     /\ stepSent' = T.sent
     /\ wire' = OnWire(wire, T.sent)
  /\ stepCalls' = <<>>
  /\ UNCHANGED <<nFrames, inputData, int16, statusVars, sessionPromiseRef, inputAudioContextRef,
                 outputAudioContextRef, mediaStreamRef, playVars, txVars,
                 nStarts, startPc, stream, inCtx, outCtx, hostVars, envVars, histVars>>

\* ------------------------------------------------- createBlob
\* the factor of line 466
Scale == 32768
\* A sample x of the Float32Array is held as the integer x * SampleUnit, so that
\* x * 32768 is a whole number of halves
SampleUnit == 2 * Scale
\* the Number x * 32768 cut to an integer toward zero (ToIntegerOrInfinity); n is
\* the sample in SampleUnits, so the product is n / (SampleUnit / Scale)
Truncate(n) ==
  IF n >= 0 THEN n \div (SampleUnit \div Scale) ELSE -((-n) \div (SampleUnit \div Scale))
\* (variant: the integer is clamped to the range of Int16)
ClampInt16(k) == IF k > Scale - 1 THEN Scale - 1 ELSE IF k < -Scale THEN -Scale ELSE k
\* the store into an Int16Array element: modulo 2^16, into -2^15 .. 2^15 - 1 (ToInt16)
ToInt16(k) ==
  LET int16bit == k % (2 * Scale)
  IN IF int16bit >= Scale THEN int16bit - 2 * Scale ELSE int16bit
\* lines 463-467: int16[i] = data[i] * 32768
createBlob(data) == [k \in DOMAIN data |-> ToInt16(Truncate(data[k]))]

\* the samples of the checked runs, in SampleUnits: 0, the smallest fractions,
\* 0.5, the values around 1.0 and -1.0, 1.5 and 2.0
Samples ==
  {0, 1, -1, 3, -3, Scale, 2 * Scale - 1, 2 * Scale, 2 * Scale + 1, 3 * Scale,
   4 * Scale, -2 * Scale, -(2 * Scale) - 1, -(2 * Scale) - 2}
\* the input buffers: every sample alone, and buffers of several samples
Buffers ==
  {<<x>> : x \in Samples}
    \cup {<<Scale, 2 * Scale>>, <<-2 * Scale, 1, 3 * Scale>>}
\* a buffer of silence
Silence == <<0>>

\* onaudioprocess of script processor i with the input buffer data: the frame is
\* given to the session the ref holds (lines 617-625)
onaudioprocess(i, data) ==
  /\ TaskBoundary
  /\ proc[i].st = "live"
  /\ nFrames < MaxFrames
  /\ inputData' = data
  /\ int16' = createBlob(data)
  /\ (sessionPromiseRef # NullRef /\ sess[sessionPromiseRef] = "connecting") =>
       Len(sessQ[sessionPromiseRef]) + 1 <= MaxQueue
  /\ nFrames' = nFrames + 1
  /\ LET T == Then(Transports, sessionPromiseRef, Reaction("frame", nFrames + 1, "", <<>>)) IN
     /\ sess' = T.sess
     /\ sessQ' = T.sessQ
     /\ closes' = T.closes
     /\ stepSent' = T.sent
     /\ wire' = OnWire(wire, T.sent)
  /\ stepCalls' = <<>>
  /\ UNCHANGED <<statusVars, refVars, playVars, txVars, nStarts, startPc, stream, proc,
                 inCtx, outCtx, hostVars, envVars, histVars>>

\* onerror: the socket of session i fails, while connecting or while open
onerror(i) ==
  /\ TaskBoundary
  /\ sess[i] \in {"connecting", "open"}
  /\ sess' = [sess EXCEPT ![i] = IF sess[i] = "connecting" THEN "failed" ELSE "closed"]
  /\ error' = "conn"
  /\ assistantStatus' = "idle"
  /\ stepCalls' = <<>>
  /\ stepSent' = <<>>
  /\ UNCHANGED <<refVars, playVars, txVars, nStarts, startPc, stream, sessQ, closes,
                 proc, inCtx, outCtx, hostVars, envVars, histVars, capVars>>

\* onclose: the server closes session i
onclose(i) ==
  /\ TaskBoundary
  /\ sess[i] = "open"
  /\ sess' = [sess EXCEPT ![i] = "closed"]
  /\ stepCalls' = <<>>
  /\ stepSent' = <<>>
  /\ UNCHANGED <<statusVars, refVars, playVars, txVars, nStarts, startPc, stream,
                 sessQ, closes, proc, inCtx, outCtx, hostVars, envVars, histVars, capVars>>

\* ------------------------------------------------- host capabilities (App)
\* APP_DEFINITIONS_CONFIG: two applications, their names as sequences of characters
APP_DEFINITIONS_CONFIG ==
  <<[id |-> 1, name |-> <<"S", "y">>], [id |-> 2, name |-> <<"E", "d">>]>>
AppIds == {APP_DEFINITIONS_CONFIG[k].id : k \in DOMAIN APP_DEFINITIONS_CONFIG}
AppNameOf(id) ==
  APP_DEFINITIONS_CONFIG[CHOOSE k \in DOMAIN APP_DEFINITIONS_CONFIG :
                           APP_DEFINITIONS_CONFIG[k].id = id].name

\* String.prototype.toLowerCase, character by character
LowerChar(c) ==
  CASE c = "S" -> "s" [] c = "Y" -> "y" [] c = "E" -> "e" [] c = "D" -> "d"
    [] c = "N" -> "n" [] c = "O" -> "o" [] OTHER -> c
toLowerCase(str) == [k \in DOMAIN str |-> LowerChar(str[k])]

\* String.prototype.trim
RECURSIVE TrimStart(_)
TrimStart(str) ==
  IF str # <<>> /\ Head(str) = " " THEN TrimStart(Tail(str)) ELSE str
RECURSIVE TrimEnd(_)
TrimEnd(str) ==
  IF str # <<>> /\ str[Len(str)] = " " THEN TrimEnd(SubSeq(str, 1, Len(str) - 1)) ELSE str
trim(str) == TrimEnd(TrimStart(str))

\* APP_DEFINITIONS_CONFIG.find(app => app.name.toLowerCase() === appName.toLowerCase().trim()):
\* the id of the first match, 0 when none
FindApp(appName) ==
  LET hits == {k \in DOMAIN APP_DEFINITIONS_CONFIG :
                 toLowerCase(APP_DEFINITIONS_CONFIG[k].name) = trim(toLowerCase(appName))}
  IN IF hits = {} THEN 0
     ELSE APP_DEFINITIONS_CONFIG[CHOOSE k \in hits : \A j \in hits : k <= j].id

Result(t, name) == [t |-> t, name |-> name]
\* let result = ''
EmptyResult == Result("", <<>>)

\* The host as one value: the state of App, the pending 500 ms close timers, the
\* capabilities invoked in this step
Host ==
  [app |-> activeApp, timers |-> closeTimers, calls |-> <<>>, res |-> EmptyResult,
   hist |-> interactionHistory, path |-> currentAppPath, content |-> llmContent,
   loading |-> isLoading, params |-> isParametersOpen, nReq |-> nRequests,
   pc |-> streamPc, closing |-> closing]

\* path.join('__'), the separator written 0
RECURSIVE JoinPath(_)
JoinPath(path) ==
  IF path = <<>> THEN <<>>
  ELSE IF Len(path) = 1 THEN <<Head(path)>>
  ELSE <<Head(path), 0>> \o JoinPath(Tail(path))
\* appContentCache[cacheKey], the empty content when there is no entry
CacheGet(cache, key) ==
  IF \E e \in cache : e.key = key THEN (CHOOSE e \in cache : e.key = key).content
  ELSE <<>>
\* {...prevCache, [cacheKey]: content}
CachePut(cache, key, content) ==
  {e \in cache : e.key # key} \cup {[key |-> key, content |-> content]}

\* internalHandleLlmRequest(historyForLlm, maxHistoryLength) up to the first chunk
\* (lines 78-90): the request is numbered and its stream starts
internalHandleLlmRequest(H, historyForLlm) ==
  IF historyForLlm = <<>> THEN H
  ELSE [H EXCEPT !.loading = TRUE, !.nReq = @ + 1,
                 !.pc = [r \in DOMAIN @ |-> IF r = H.nReq + 1 THEN "streaming" ELSE @[r]]]

\* the end of handleAppOpen and of handleInteraction: the content is emptied,
\* then taken from the cache or requested (lines 207-216, 147-155)
ShowContent(H, R, newHistory, newPath) ==
  LET cached == CacheGet(R.cache, JoinPath(newPath)) IN
  IF R.stateful /\ cached # <<>>
  THEN [H EXCEPT !.content = cached, !.loading = FALSE]
  ELSE internalHandleLlmRequest([H EXCEPT !.content = <<>>], newHistory)

\* the interaction of an app_open (lines 189-195)
AppOpenInteraction(app) == [id |-> app, type |-> "app_open"]

\* handleAppOpen(app), of the render R
handleAppOpen(H, app, R) ==
  LET newHistory == <<AppOpenInteraction(app)>>
      appPath == <<app>>
      H1 == [H EXCEPT !.hist = newHistory, !.path = appPath, !.app = app,
                      !.params = IF R.params THEN FALSE ELSE @]
  IN ShowContent(H1, R, newHistory, appPath)

\* handleOpenAppByName(appName), of the render cap
handleOpenAppByName(H, appName, cap) ==
  LET appToOpen == FindApp(appName)
      H1 == [H EXCEPT !.calls = Append(@, [name |-> "openApp", arg |-> appName])]
  IN IF appToOpen # 0
     THEN IF cap.app = appToOpen
          THEN [H1 EXCEPT !.res = Result("alreadyOpen", appName)]
          ELSE [handleAppOpen(H1, appToOpen, cap) EXCEPT !.res = Result("opening", appName)]
     ELSE [H1 EXCEPT !.res = Result("notFound", appName)]

\* handleCloseAppView(), of the render cap
handleCloseAppView(H, cap) ==
  LET H1 == [H EXCEPT !.calls = Append(@, [name |-> "closeApp", arg |-> <<>>])]
  IN IF cap.app = 0
     THEN [H1 EXCEPT !.res = Result("noActiveApp", <<>>)]
     ELSE [H1 EXCEPT !.timers = @ + 1, !.closing = Append(@, cap.app),
                     !.res = Result("closing", AppNameOf(cap.app))]

\* getDesktopAppsList()
RECURSIVE JoinNames(_)
JoinNames(k) ==
  IF k > Len(APP_DEFINITIONS_CONFIG) THEN <<>>
  ELSE (IF k > 1 THEN <<",", " ">> ELSE <<>>) \o APP_DEFINITIONS_CONFIG[k].name
       \o JoinNames(k + 1)
getDesktopAppsList(H) ==
  [H EXCEPT !.calls = Append(@, [name |-> "getAppList", arg |-> <<>>]),
            !.res = Result("availableApps", JoinNames(1))]

\* The cache effect (lines 107-128), which runs after every render whose
\* llmContent, isLoading, currentAppPath, isStatefulnessEnabled or cache changed
CacheEffect(cache, loading, path, stateful, content) ==
  IF ~loading /\ path # <<>> /\ stateful /\ content # <<>>
  THEN CachePut(cache, JoinPath(path), content)
  ELSE cache

\* The state of App after a handler left the host as H, the statefulness flag,
\* the cache and the history length as given, and the cache effect ran
SetApp(H, stateful, cache, max) ==
  /\ H.nReq <= MaxRequests
  /\ activeApp' = H.app
  /\ closeTimers' = H.timers
  /\ interactionHistory' = H.hist
  /\ currentAppPath' = H.path
  /\ llmContent' = H.content
  /\ isLoading' = H.loading
  /\ isParametersOpen' = H.params
  /\ nRequests' = H.nReq
  /\ streamPc' = H.pc
  /\ closing' = H.closing
  /\ dropped' = (IF stateful = isStatefulnessEnabled THEN dropped
                 ELSE Cardinality(appContentCache \ cache))
  /\ isStatefulnessEnabled' = stateful
  /\ currentMaxHistoryLength' = max
  /\ appContentCache' = CacheEffect(cache, H.loading, H.path, stateful, H.content)
ApplyHost(H) ==
  SetApp(H, isStatefulnessEnabled, appContentCache, currentMaxHistoryLength)

\* ------------------------------------------------- onmessage
\* A LiveServerMessage: turnComplete, interrupted, inputTranscription, outputTranscription,
\* modelTurn.parts[0] (none, with inline audio of duration dur, or without inlineData),
\* toolCall.functionCalls
EmptyMsg ==
  [tc |-> FALSE, intr |-> FALSE, hasIn |-> FALSE, inText |-> <<>>, hasOut |-> FALSE,
   outText |-> <<>>, part |-> "none", dur |-> 0, calls |-> <<>>]

\* (variant: the chain ends in a plain else that lists the apps)
CallCapabilityElseList(H, fc, cap) ==
  IF fc.name = "openApp" THEN handleOpenAppByName(H, fc.args, cap)
  ELSE IF fc.name = "closeApp" THEN handleCloseAppView(H, cap)
  ELSE getDesktopAppsList(H)
\* the if/else chain over fc.name (lines 668-674)
CallCapability(H, fc, cap) ==
  IF fc.name = "openApp" THEN handleOpenAppByName(H, fc.args, cap)
  ELSE IF fc.name = "closeApp" THEN handleCloseAppView(H, cap)
  ELSE IF fc.name = "getAppList" THEN getDesktopAppsList(H)
  ELSE [H EXCEPT !.res = EmptyResult]

\* (variant: the response carries the name as its id)
ToolResponseIdFromName(fc, result) == Reaction("tool", fc.name, fc.name, result)
\* the response of one function call (lines 676-682)
ToolResponse(fc, result) == Reaction("tool", fc.id, fc.name, result)
SendToolResponse(T, fc, result) == Then(T, sessionPromiseRef, ToolResponse(fc, result))

\* for (const fc of message.toolCall.functionCalls): X is <<host, transports>>
RECURSIVE FunctionCalls(_, _, _)
FunctionCalls(X, calls, cap) ==
  IF calls = <<>> THEN X
  ELSE LET H == CallCapability(X[1], Head(calls), cap)
       IN FunctionCalls(<<H, SendToolResponse(X[2], Head(calls), H.res)>>, Tail(calls), cap)

\* line 637 reads parts[0].inlineData.data of a part without inlineData: the handler throws
Throws637(m) == ~(m.tc \/ m.intr) /\ ~m.hasOut /\ m.part = "noInline"
\* line 687 does the same whenever it is reached
Throws687(m) == m.part = "noInline"

\* (variant: only audio moves the status to processing)
StatusAfterAudioOnly(m) ==
  IF m.tc \/ m.intr THEN "listening"
  ELSE IF m.part = "audio" THEN "processing"
  ELSE assistantStatus
\* lines 632-639
StatusAfter(m) ==
  IF m.tc \/ m.intr THEN "listening"
  ELSE IF m.hasOut \/ m.part = "audio" THEN "processing"
  ELSE assistantStatus

\* (variant: the agent entry is pushed before the user entry)
HistoryAfterAgentFirst(fullInput, fullOutput) ==
  transcriptionHistory
    \o (IF fullOutput # <<>> THEN <<[speaker |-> "agent", text |-> fullOutput]>> ELSE <<>>)
    \o (IF fullInput # <<>> THEN <<[speaker |-> "user", text |-> fullInput]>> ELSE <<>>)
\* lines 650-658
HistoryAfter(fullInput, fullOutput) ==
  transcriptionHistory
    \o (IF fullInput # <<>> THEN <<[speaker |-> "user", text |-> fullInput]>> ELSE <<>>)
    \o (IF fullOutput # <<>> THEN <<[speaker |-> "agent", text |-> fullOutput]>> ELSE <<>>)

\* the playback handles stopped and the cursor reset by an interrupted message
SourcesAfter(m) == IF m.intr THEN FlushedSources ELSE outputSourcesRef
CursorAfter(m) == IF m.intr THEN FlushedCursor ELSE nextStartTimeRef

\* (variant: the chunk is placed at the clock whatever the cursor is)
CursorAtClock(cursor) == currentTime
\* line 689: the cursor moves up to the clock before the decode is awaited
CursorAtDecode(cursor) == Max(cursor, currentTime)

\* the speakers heard so far and those of the fragments of m, the user's first
\* (lines 641-647)
Hearing(h, m) ==
  LET spoke(x, sp) == \E k \in DOMAIN x : x[k] = sp
      h0 == IF h # <<>> /\ h[Len(h)] = "turnComplete" THEN <<>> ELSE h
      h1 == IF m.hasIn /\ ~spoke(h0, "user") THEN Append(h0, "user") ELSE h0
  IN IF m.hasOut /\ ~spoke(h1, "agent") THEN Append(h1, "agent") ELSE h1

\* the handlers suspended at the decode when a flush runs are marked (history only)
MarkFlushed(q) == [k \in DOMAIN q |-> [q[k] EXCEPT !.flushed = TRUE]]

\* onmessage of session i up to `await decodeAudioData`
onmessage(i, m) ==
  /\ sess[i] = "open"
  /\ Len(currentInputTranscription) + Len(m.inText) <= MaxBuf
  /\ Len(currentOutputTranscription) + Len(m.outText) <= MaxBuf
  /\ (m.tc \/ m.hasIn \/ m.hasOut) => Len(transcriptionHistory) + 2 <= MaxHistory
  /\ closeTimers + Cardinality({k \in DOMAIN m.calls : m.calls[k].name = "closeApp"})
       <= MaxTimers
  /\ (sessionPromiseRef # NullRef /\ sess[sessionPromiseRef] = "connecting") =>
       Len(sessQ[sessionPromiseRef]) + Len(m.calls) <= MaxQueue
  /\ m.part = "audio" =>
       /\ Len(pendingDecode) < MaxPending
       /\ CursorAtDecode(CursorAfter(m)) + SumDur(pendingDecode) + m.dur <= MaxCursor
  /\ assistantStatus' = (IF Throws637(m) THEN assistantStatus ELSE StatusAfter(m))
  /\ outputSourcesRef' = SourcesAfter(m)
  /\ afterInterrupt' = (m.intr \/ afterInterrupt)
  /\ heard' = (IF Throws637(m) THEN heard
               ELSE IF m.tc THEN Append(Hearing(heard, m), "turnComplete")
               ELSE Hearing(heard, m))
  /\ UNCHANGED <<error, refVars, nStarts, startPc, stream, proc, inCtx, outCtx,
                 capApp, envVars, commands, capVars>>
  /\ \E X \in {FunctionCalls(<<Host, Transports>>, m.calls, capApp[i])} :
     LET curIn == IF m.hasIn THEN currentInputTranscription \o m.inText
                  ELSE currentInputTranscription
         curOut == IF m.hasOut THEN currentOutputTranscription \o m.outText
                   ELSE currentOutputTranscription
         decoding == m.part = "audio" /\ outputAudioContextRef # NullRef
         marked == IF m.intr THEN MarkFlushed(pendingDecode) ELSE pendingDecode
     IN IF Throws637(m)
        THEN /\ nextStartTimeRef' = CursorAfter(m)
             /\ pendingDecode' = marked
             /\ stepCalls' = <<>>
             /\ stepSent' = <<>>
             /\ UNCHANGED <<txVars, sess, sessQ, closes, activeApp, closeTimers, appVars>>
        ELSE /\ currentInputTranscription' = (IF m.tc THEN <<>> ELSE curIn)
             /\ currentOutputTranscription' = (IF m.tc THEN <<>> ELSE curOut)
             /\ transcriptionHistory' =
                  (IF m.tc THEN HistoryAfter(trim(curIn), trim(curOut))
                   ELSE transcriptionHistory)
             /\ ApplyHost(X[1])
             /\ stepCalls' = X[1].calls
             /\ sess' = X[2].sess
             /\ sessQ' = X[2].sessQ
             /\ closes' = X[2].closes
             /\ stepSent' = X[2].sent
             /\ IF decoding /\ ~Throws687(m)
                THEN /\ nextStartTimeRef' = CursorAtDecode(CursorAfter(m))
                     /\ pendingDecode' =
                          Append(marked, [dur |-> m.dur, flushed |-> FALSE,
                                          now |-> currentTime])
                ELSE /\ nextStartTimeRef' = CursorAfter(m)
                     /\ pendingDecode' = marked

\* source.start(nextStartTimeRef.current): the handle that is scheduled
NewSource(cursor, item) == [start |-> cursor, dur |-> item.dur]
\* nextStartTimeRef.current += audioBuffer.duration
CursorAfterSchedule(cursor, item) == cursor + item.dur

\* onmessage after `await decodeAudioData` (lines 692-699), for the oldest suspended handler
DecodeDone ==
  /\ pendingDecode # <<>>
  /\ LET item == Head(pendingDecode) IN
     /\ outputSourcesRef' = outputSourcesRef \cup {NewSource(nextStartTimeRef, item)}
     /\ nextStartTimeRef' = CursorAfterSchedule(nextStartTimeRef, item)
     /\ pendingDecode' = Tail(pendingDecode)
  /\ afterInterrupt' = FALSE
  /\ stepCalls' = <<>>
  /\ stepSent' = <<>>
  /\ UNCHANGED <<statusVars, refVars, txVars, resVars, hostVars, envVars, commands, heard, capVars>>

\* the 'ended' listener of a source (line 695)
Ended(source) ==
  /\ TaskBoundary
  /\ source \in outputSourcesRef
  /\ outputSourcesRef' = outputSourcesRef \ {source}
  /\ stepCalls' = <<>>
  /\ stepSent' = <<>>
  /\ UNCHANGED <<statusVars, refVars, nextStartTimeRef, pendingDecode, txVars, resVars,
                 hostVars, envVars, histVars, capVars>>

\* the clock of the output context the ref holds advances while that context runs
Tick ==
  /\ outputAudioContextRef # NullRef
  /\ outCtx[outputAudioContextRef] = "running"
  /\ currentTime < MaxNow
  /\ currentTime' = currentTime + 1
  /\ stepCalls' = <<>>
  /\ stepSent' = <<>>
  /\ UNCHANGED <<statusVars, refVars, playVars, txVars, resVars, hostVars, webAudio,
                 mounted, histVars, capVars>>

\* ------------------------------------------------- the desktop
\* what every handler of App leaves alone: the assistant
AssistantUnchanged ==
  /\ stepCalls' = <<>>
  /\ stepSent' = <<>>
  /\ UNCHANGED <<statusVars, refVars, playVars, txVars, resVars, capApp, envVars,
                 histVars, capVars>>

\* a click on a desktop icon: handleAppOpen(app, event)
DesktopOpen(app) ==
  /\ TaskBoundary
  /\ ApplyHost(handleAppOpen(Host, app, Render))
  /\ AssistantUnchanged

\* the close button of the window, or the app_close_button of the content:
\* handleCloseAppView() of the current render
CloseApp ==
  /\ TaskBoundary
  /\ activeApp # 0
  /\ ~isParametersOpen
  /\ closeTimers < MaxTimers
  /\ ApplyHost(handleCloseAppView(Host, Render))
  /\ AssistantUnchanged

\* the 500 ms timer of handleCloseAppView fires (lines 237-244)
CloseTimerFires ==
  /\ TaskBoundary
  /\ closeTimers > 0
  /\ ApplyHost([Host EXCEPT !.timers = @ - 1, !.closing = Tail(@), !.app = 0,
                            !.content = <<>>, !.hist = <<>>, !.path = <<>>])
  /\ AssistantUnchanged

\* Array.prototype.slice(0, end): a negative end counts from the end
Slice(arr, end) ==
  LET e == IF end < 0 THEN Max(Len(arr) + end, 0)
           ELSE IF end > Len(arr) THEN Len(arr) ELSE end
  IN SubSeq(arr, 1, e)

\* the ids of the elements of the generated content
InteractionIds == {3, 4}

\* handleInteraction(interactionData) for an element of the content shown
\* (lines 136-155); the app_close_button is CloseApp
Interaction(id) ==
  /\ TaskBoundary
  /\ activeApp # 0
  /\ ~isParametersOpen
  /\ llmContent # <<>>
  /\ Len(currentAppPath) < MaxPath
  /\ LET newHistory == <<[id |-> id, type |-> "interaction"]>>
                         \o Slice(interactionHistory, currentMaxHistoryLength - 1)
         newPath == IF activeApp # 0 THEN Append(currentAppPath, id) ELSE <<id>>
     IN ApplyHost(ShowContent([Host EXCEPT !.hist = newHistory, !.path = newPath],
                              Render, newHistory, newPath))
  /\ AssistantUnchanged

\* handleToggleParametersPanel (lines 247-268), from the window that is shown
ToggleParameters ==
  /\ TaskBoundary
  /\ activeApp # 0 \/ isParametersOpen
  /\ ApplyHost([Host EXCEPT !.params = ~isParametersOpen,
                            !.app = IF ~isParametersOpen THEN 0 ELSE @])
  /\ AssistantUnchanged

\* handleUpdateHistoryLength(newLength), from the parameters panel
handleUpdateHistoryLength(newLength) ==
  /\ TaskBoundary
  /\ isParametersOpen
  /\ SetApp([Host EXCEPT !.hist = Slice(interactionHistory, newLength)],
            isStatefulnessEnabled, appContentCache, newLength)
  /\ AssistantUnchanged

\* (variant: the cache survives the disabling)
CacheAfterKept(enabled) == appContentCache
\* lines 277-279: if (!enabled) setAppContentCache({})
CacheAfter(enabled) == IF ~enabled THEN {} ELSE appContentCache

\* handleSetStatefulness(enabled), from the parameters panel
handleSetStatefulness(enabled) ==
  /\ TaskBoundary
  /\ isParametersOpen
  /\ SetApp(Host, enabled, CacheAfter(enabled), currentMaxHistoryLength)
  /\ AssistantUnchanged

\* the stream of request r yields a chunk: setLlmContent(prev => prev + chunk)
StreamChunk(r) ==
  /\ TaskBoundary
  /\ streamPc[r] = "streaming"
  /\ Len(llmContent) < MaxContent
  /\ ApplyHost([Host EXCEPT !.content = Append(@, r)])
  /\ AssistantUnchanged

\* the stream of request r ends: finally setIsLoading(false)
StreamEnd(r) ==
  /\ TaskBoundary
  /\ streamPc[r] = "streaming"
  /\ ApplyHost([Host EXCEPT !.loading = FALSE, !.pc[r] = "done"])
  /\ AssistantUnchanged

\* the markup shown when a stream fails
ErrorContent == <<0>>
\* the stream of request r throws: the catch block, then finally
StreamFail(r) ==
  /\ TaskBoundary
  /\ streamPc[r] = "streaming"
  /\ ApplyHost([Host EXCEPT !.content = ErrorContent, !.loading = FALSE, !.pc[r] = "done"])
  /\ AssistantUnchanged

\* handleToggleAssistant with the panel closed: the history is set to the system
\* entry and a new LiveAssistant is mounted, its state and refs as constructed.
\* The model keeps one set of refs, so the panel is opened again only when
\* nothing of the unmounted component is still running.
OpenAssistant ==
  /\ TaskBoundary
  /\ ~mounted
  /\ \A i \in Invocations : startPc[i] # "awaitGUM" /\ sess[i] \notin {"connecting", "open"}
  /\ mounted' = TRUE
  /\ transcriptionHistory' = <<SystemEntry>>
  /\ assistantStatus' = "idle"
  /\ error' = "null"
  /\ sessionPromiseRef' = NullRef
  /\ inputAudioContextRef' = NullRef
  /\ outputAudioContextRef' = NullRef
  /\ mediaStreamRef' = NullRef
  /\ scriptProcessorRef' = NullRef
  /\ mediaStreamSourceRef' = NullRef
  /\ outputSourcesRef' = {}
  /\ nextStartTimeRef' = 0
  /\ currentInputTranscription' = <<>>
  /\ currentOutputTranscription' = <<>>
  /\ currentTime' = 0
  /\ commands' = <<>>
  /\ afterInterrupt' = FALSE
  /\ heard' = <<>>
  /\ stepCalls' = <<>>
  /\ stepSent' = <<>>
  /\ UNCHANGED <<pendingDecode, resVars, hostVars, webAudio, capVars>>

\* ------------------------------------------------- messages of the checked runs
AudioChunk(d) == [EmptyMsg EXCEPT !.part = "audio", !.dur = d]
Interrupted == [EmptyMsg EXCEPT !.intr = TRUE]
TurnComplete == [EmptyMsg EXCEPT !.tc = TRUE]
PartialTranscript(speaker, text) ==
  IF speaker = "user" THEN [EmptyMsg EXCEPT !.hasIn = TRUE, !.inText = text]
  ELSE [EmptyMsg EXCEPT !.hasOut = TRUE, !.outText = text]
ToolCallRequest(calls) == [EmptyMsg EXCEPT !.calls = calls]

PlaybackMessages ==
  {AudioChunk(d) : d \in Durations}
    \cup {Interrupted, TurnComplete}

Lifecycle(limit) ==
  \/ ToggleStart(limit)
  \/ ToggleStop
  \/ Unmount
  \/ \E i \in Invocations : GumResolve(i)
  \/ \E i \in Invocations : GumReject(i)
  \/ \E i \in Invocations : SessionOpen(i)
  \/ \E i \in Invocations : onerror(i)
  \/ \E i \in Invocations : onclose(i)

Playback ==
  \/ \E i \in Invocations, m \in PlaybackMessages : onmessage(i, m)
  \/ DecodeDone
  \/ Tick
  \/ \E source \in outputSourcesRef : Ended(source)

\* The session over its whole life: starts, stops, failures, and the audio events
Next == Lifecycle(MaxStarts) \/ Playback
Spec == Init /\ [][Next]_vars

\* The playback scheduler under every order of audio events, over PlayStarts
\* sessions that are started, stopped or fail
Sessions(limit) ==
  \/ ToggleStart(limit)
  \/ ToggleStop
  \/ \E i \in Invocations : GumResolve(i)
  \/ \E i \in Invocations : SessionOpen(i)
  \/ \E i \in Invocations : onerror(i)
NextPlay == Sessions(PlayStarts) \/ Playback
SpecPlay == Init /\ [][NextPlay]_vars

\* One session that opens and stays open, under every order of audio events
NextSession ==
  \/ ToggleStart(PlayStarts)
  \/ \E i \in Invocations : GumResolve(i)
  \/ \E i \in Invocations : SessionOpen(i)
  \/ Playback
SpecSession == Init /\ [][NextSession]_vars

\* Tool calls: the names the server may send, the ids, the appName arguments
ToolNames == {"openApp", "closeApp", "getAppList", "shutdown"}
KnownTools == {"openApp", "closeApp", "getAppList"}
CallIds == {"41", "42"}
ArgNames == {<<" ", "s", "Y">>, <<"n", "o">>}
FunctionCall(id, name, args) == [id |-> id, name |-> name, args |-> args]
ToolCalls ==
  {FunctionCall("42", "openApp", a) : a \in ArgNames}
    \cup {FunctionCall("41", n, <<>>) : n \in KnownTools \ {"openApp"}}
    \cup {FunctionCall("42", n, <<>>) : n \in ToolNames \ KnownTools}
ToolMessages ==
  {ToolCallRequest(<<fc>>) : fc \in ToolCalls}
    \cup {ToolCallRequest(<<FunctionCall("41", "openApp", <<"E", "d">>),
                            FunctionCall("42", "getAppList", <<>>)>>)}

\* The tool calls of the server and clicks on the first desktop icon, over
\* PlayStarts sessions that are started and stopped
NextTools ==
  \/ ToggleStart(PlayStarts)
  \/ ToggleStop
  \/ \E i \in Invocations : GumResolve(i)
  \/ \E i \in Invocations : SessionOpen(i)
  \/ \E i \in Invocations, m \in ToolMessages : onmessage(i, m)
  \/ DesktopOpen(APP_DEFINITIONS_CONFIG[1].id)
  \/ CloseTimerFires
SpecTools == Init /\ [][NextTools]_vars

\* Transcripts: the fragments the server may send
UserTexts == {<<"a">>, <<"b">>}
AgentTexts == {<<"c">>, <<" ">>}
TranscriptMessages ==
  {PartialTranscript("user", t) : t \in UserTexts}
    \cup {PartialTranscript("agent", t) : t \in AgentTexts}
    \cup {TurnComplete, Interrupted}

\* The turns of one session that opens and stays open: fragments of both
\* speakers in every order, turnComplete, interrupted
NextTurns ==
  \/ ToggleStart(PlayStarts)
  \/ \E i \in Invocations : GumResolve(i)
  \/ \E i \in Invocations : SessionOpen(i)
  \/ \E i \in Invocations, m \in TranscriptMessages : onmessage(i, m)
SpecTurns == Init /\ [][NextTurns]_vars

\* The same over sessions that are stopped and started again, with the
\* assistant panel closed and opened again
NextPanel ==
  \/ NextTurns
  \/ ToggleStop
  \/ Unmount
  \/ OpenAssistant
SpecPanel == Init /\ [][NextPanel]_vars

\* Every kind of server event on one session that opens and stays open; the
\* sources play on (their end and the clock are the matter of SpecPlay)
StatusMessages ==
  {AudioChunk(1), Interrupted, TurnComplete,
   PartialTranscript("user", <<"a">>), PartialTranscript("agent", <<"c">>),
   ToolCallRequest(<<FunctionCall("41", "getAppList", <<>>)>>)}
NextStatus ==
  \/ ToggleStart(PlayStarts)
  \/ \E i \in Invocations : GumResolve(i)
  \/ \E i \in Invocations : SessionOpen(i)
  \/ \E i \in Invocations, m \in StatusMessages : onmessage(i, m)
  \/ DecodeDone
SpecStatus == Init /\ [][NextStatus]_vars

\* Capture: PlayStarts sessions that are started, stopped, refused the microphone
\* or fail, and the frames of their script processors
NextCapture ==
  \/ Lifecycle(PlayStarts)
  \/ \E i \in Invocations : onaudioprocess(i, Silence)
SpecCapture == Init /\ [][NextCapture]_vars

\* Both directions of one session: the frames going out, the audio events coming in
NextDuplex ==
  \/ ToggleStart(PlayStarts)
  \/ \E i \in Invocations : GumResolve(i)
  \/ \E i \in Invocations : SessionOpen(i)
  \/ \E i \in Invocations : onaudioprocess(i, Silence)
  \/ \E i \in Invocations, m \in PlaybackMessages : onmessage(i, m)
  \/ DecodeDone
SpecDuplex == Init /\ [][NextDuplex]_vars

\* The sends of sessions that are started and stopped at any moment: frames and
\* the responses to a tool call
SendMessages == {ToolCallRequest(<<FunctionCall("41", "getAppList", <<>>)>>)}
NextSends ==
  \/ ToggleStart(MaxStarts)
  \/ ToggleStop
  \/ \E i \in Invocations : GumResolve(i)
  \/ \E i \in Invocations : SessionOpen(i)
  \/ \E i \in Invocations : onaudioprocess(i, Silence)
  \/ \E i \in Invocations, m \in SendMessages : onmessage(i, m)
SpecSends == Init /\ [][NextSends]_vars

\* Capture of sessions that are started and stopped, over the sample values of interest
NextEncode ==
  \/ ToggleStart(PlayStarts)
  \/ ToggleStop
  \/ \E i \in Invocations : GumResolve(i)
  \/ \E i \in Invocations : SessionOpen(i)
  \/ \E i \in Invocations, data \in Buffers : onaudioprocess(i, data)
SpecEncode == Init /\ [][NextEncode]_vars

\* Server events whose modelTurn.parts[0] has no inlineData (a text part), alone
\* or next to the other fields of serverContent
MalformedPart == [EmptyMsg EXCEPT !.part = "noInline"]
MalformedMessages ==
  {MalformedPart,
   [MalformedPart EXCEPT !.hasIn = TRUE, !.inText = <<"a">>],
   [MalformedPart EXCEPT !.hasOut = TRUE, !.outText = <<"c">>],
   [MalformedPart EXCEPT !.tc = TRUE],
   [MalformedPart EXCEPT !.intr = TRUE]}
\* One open session that receives malformed events among well-formed ones
NextMalformed ==
  \/ ToggleStart(PlayStarts)
  \/ \E i \in Invocations : GumResolve(i)
  \/ \E i \in Invocations : SessionOpen(i)
  \/ \E i \in Invocations, m \in MalformedMessages \cup StatusMessages : onmessage(i, m)
  \/ DecodeDone
SpecMalformed == Init /\ [][NextMalformed]_vars

\* ------------------------------------------------- steps named in the claims
\* an interrupted message is handled
InterruptedStep == \E i \in Invocations : onmessage(i, Interrupted)

\* the scheduled interval of a source
Overlap(a, b) == a.start < b.start + b.dur /\ b.start < a.start + a.dur

\* C1: in every reachable state no two playback handles of the active registry
\* have overlapping scheduled intervals [start, start + dur): of any two, one ends
\* at or before the start of the other.
C1_NoOverlap == \A a, b \in outputSourcesRef : a # b => ~Overlap(a, b)

\* two handles are active at once, the earlier one scheduled at time 0
C1_Witness ==
  /\ Cardinality(outputSourcesRef) >= 2
  /\ \E a \in outputSourcesRef : a.start = 0

\* C2: after an Interrupted event has been handled the active set is empty and the
\* cursor is 0, and the next audio chunk that is scheduled starts at the current
\* time of the audio clock, not at a time derived from the cursor before the
\* interruption.
C2_InterruptedThenNow ==
  [][/\ InterruptedStep => outputSourcesRef' = {} /\ nextStartTimeRef' = 0
     /\ (afterInterrupt /\ DecodeDone) =>
          NewSource(nextStartTimeRef, Head(pendingDecode)).start = currentTime]_vars

\* C3: interruption is atomic with respect to audio chunks: a chunk that arrived
\* before an Interrupted event, its handler suspended at the decode while the flush
\* ran, is not scheduled or put into the active set after the flush.
C3_AtomicInterruption ==
  [][(pendingDecode # <<>> /\ Head(pendingDecode).flushed) =>
       outputSourcesRef' \subseteq outputSourcesRef]_vars

\* the transport sessions that are open, the media streams whose tracks run
OpenSessions == {i \in Invocations : sess[i] = "open"}
LiveStreams == {i \in Invocations : stream[i] = "live"}
\* a start is suspended at getUserMedia
StartPending == \E i \in Invocations : startPc[i] = "awaitGUM"

\* C4: stop, called in any state, also while a handler is suspended, leaves capture
\* halted (no media stream, script processor or source node held), the active
\* playback set empty and staying empty, and the transport closed exactly once: as
\* long as no start follows, nothing is held, no session is open or left without
\* its close, and no playback handle is in the active set.
C4_StopHaltsEverything ==
  stopped =>
    /\ mediaStreamRef = NullRef /\ scriptProcessorRef = NullRef
    /\ mediaStreamSourceRef = NullRef
    /\ LiveStreams = {}
    /\ outputSourcesRef = {}
    /\ sessionPromiseRef = NullRef
    /\ \A i \in Invocations :
         /\ sess[i] # "open"
         /\ sess[i] = "connecting" => sessQ[i] = <<CloseReaction>>
         /\ closes[i] <= 1

\* C5: start, stop, start again re-acquires capture and transport and leaks nothing
\* of the first session: whenever the stop came relative to the first start's
\* pending steps, once both starts have run to their end the first start's media
\* stream is released and its transport session is closed, and only the second
\* start's stream and session remain.
C5_RestartLeaksNothing ==
  (commands = <<"start", "stop", "start">> /\ ~StartPending) =>
    /\ LiveStreams \subseteq {2}
    /\ \A i \in Invocations : sess[i] \in {"connecting", "open"} => i = 2

\* C6: at most one session is live at any time: never more than one open transport
\* session, never more than one held capture stream.
C6_AtMostOneSession ==
  /\ Cardinality(OpenSessions) <= 1
  /\ Cardinality(LiveStreams) <= 1

\* C7: when the transport fails to open or errors mid-session, the session moves to
\* Idle and in that transition capture is stopped, the playback scheduler is
\* flushed and the transport is closed, so that nothing remains held; the error
\* is surfaced.
C7_ErrorReleasesAll ==
  [][(\E i \in Invocations : onerror(i)) =>
       /\ assistantStatus' = "idle" /\ error' = "conn"
       /\ mediaStreamRef' = NullRef /\ scriptProcessorRef' = NullRef
       /\ mediaStreamSourceRef' = NullRef
       /\ \A i \in Invocations : stream'[i] # "live"
       /\ outputSourcesRef' = {} /\ nextStartTimeRef' = 0
       /\ sessionPromiseRef' = NullRef]_vars

\* C8: stop when the session is already Idle (also twice in a row, or never
\* started) is a no-op: status, cursor, active set, transcript buffers and history
\* stay as they are and no transport is closed a second time.
C8_StopWhenIdleIsNoOp ==
  [][(assistantStatus = "idle" /\ (ToggleStop \/ Unmount)) =>
       /\ UNCHANGED <<assistantStatus, nextStartTimeRef, outputSourcesRef, txVars>>
       /\ \A i \in Invocations : closes'[i] <= 1]_vars

\* the assistant holds a session and that session is open
HeldSessionOpen == sessionPromiseRef # NullRef /\ sess[sessionPromiseRef] = "open"

\* what the capability named by fc returns when called in the current state
CapabilityResult(fc, cap) ==
  IF fc.name = "openApp" THEN handleOpenAppByName(Host, fc.args, cap).res
  ELSE IF fc.name = "closeApp" THEN handleCloseAppView(Host, cap).res
  ELSE getDesktopAppsList(Host).res

\* the response to fc as it appears on the held session
ResponseOnWire(fc, result) ==
  [s |-> sessionPromiseRef, k |-> "tool", id |-> fc.id, name |-> fc.name, result |-> result]

KnownCalls(m) == \A k \in DOMAIN m.calls : m.calls[k].name \in KnownTools

\* C9: every tool call request named openApp, closeApp or getAppList, received
\* while the session is open, invokes the matching host capability exactly once
\* (openApp with the appName of the call) and produces exactly one tool response,
\* with the id and the name of the request and the string the capability returned.
C9_OneResponsePerKnownCall ==
  [][\A i \in Invocations, m \in ToolMessages :
       (HeldSessionOpen /\ KnownCalls(m) /\ onmessage(i, m)) =>
         /\ Len(stepCalls') = Len(m.calls)
         /\ Len(stepSent') = Len(m.calls)
         /\ \A k \in DOMAIN m.calls :
              /\ stepCalls'[k] = [name |-> m.calls[k].name, arg |-> m.calls[k].args]
              /\ stepSent'[k].s = sessionPromiseRef
              /\ stepSent'[k].id = m.calls[k].id
              /\ stepSent'[k].name = m.calls[k].name
         /\ stepSent'[1].result = CapabilityResult(m.calls[1], capApp[i])]_vars

\* an openApp call was answered with the result of opening the app, under its id
C9_Witness ==
  /\ stepCalls = <<[name |-> "openApp", arg |-> <<" ", "s", "Y">>]>>
  /\ Len(stepSent) = 1
  /\ stepSent[1].id = "42" /\ stepSent[1].name = "openApp"
  /\ stepSent[1].result = Result("opening", <<" ", "s", "Y">>)
  /\ activeApp = 1

\* C10, as claimed: a tool call request with a name outside the known set is not
\* dispatched to a host capability and produces no tool response.
C10_UnknownToolNoResponse ==
  [][\A i \in Invocations, fc \in ToolCalls :
       (fc.name \notin KnownTools /\ onmessage(i, ToolCallRequest(<<fc>>))) =>
         stepCalls' = <<>> /\ stepSent' = <<>>]_vars

\* C10, amended: a tool call request with a name outside the known set is not
\* dispatched to a host capability and leaves the host as it is, and, while the
\* session is open, one tool response with its id, its name and the empty string
\* as result is sent.
C10_UnknownToolEmptyResponse ==
  [][\A i \in Invocations, fc \in ToolCalls :
       (fc.name \notin KnownTools /\ onmessage(i, ToolCallRequest(<<fc>>))) =>
         /\ stepCalls' = <<>>
         /\ UNCHANGED <<activeApp, closeTimers>>
         /\ HeldSessionOpen => stepSent' = <<ResponseOnWire(fc, EmptyResult)>>]_vars

\* a response with the empty result went out for a call of an unknown name
C10_Witness ==
  /\ stepCalls = <<>>
  /\ Len(stepSent) = 1
  /\ stepSent[1].name = "shutdown" /\ stepSent[1].id = "42"
  /\ stepSent[1].result = EmptyResult

\* ------------------------------------------------- transcripts
\* a turnComplete message is handled; a fragment of a speaker is handled
TurnCompleteStep == \E i \in Invocations : onmessage(i, TurnComplete)
FragmentStep(speaker, t) == \E i \in Invocations : onmessage(i, PartialTranscript(speaker, t))
\* the entries the history gained in a step
Gained == SubSeq(transcriptionHistory', Len(transcriptionHistory) + 1,
                 Len(transcriptionHistory'))
Entry(speaker, text) == [speaker |-> speaker, text |-> text]

\* C11: a fragment is added at the end of the buffer of its speaker, so a buffer is
\* the concatenation of the fragments of its speaker in arrival order.  On
\* TurnComplete the history gains, for non-empty trimmed buffers of user and agent,
\* exactly two entries, the user entry right before the agent entry whichever
\* speaker was heard first, each text the trimmed buffer; the entry of a speaker
\* whose trimmed buffer is empty is left out; both buffers are empty afterwards.
C11_TurnCompleteFinalizes ==
  [][/\ \A t \in UserTexts : FragmentStep("user", t) =>
          currentInputTranscription' = currentInputTranscription \o t
     /\ \A t \in AgentTexts : FragmentStep("agent", t) =>
          currentOutputTranscription' = currentOutputTranscription \o t
     /\ TurnCompleteStep =>
          LET u == trim(currentInputTranscription)
              a == trim(currentOutputTranscription)
          IN /\ SubSeq(transcriptionHistory', 1, Len(transcriptionHistory))
                  = transcriptionHistory
             /\ (u # <<>> /\ a # <<>>) => Gained = <<Entry("user", u), Entry("agent", a)>>
             /\ (u # <<>> /\ a = <<>>) => Gained = <<Entry("user", u)>>
             /\ (u = <<>> /\ a # <<>>) => Gained = <<Entry("agent", a)>>
             /\ (u = <<>> /\ a = <<>>) => Gained = <<>>
             /\ currentInputTranscription' = <<>>
             /\ currentOutputTranscription' = <<>>]_vars

\* a turn in which the agent was heard first and the user said "a" and then "b" is
\* complete: the user entry "ab" stands right before the agent entry
C11_Witness ==
  /\ heard = <<"agent", "user", "turnComplete">>
  /\ transcriptionHistory
       = <<SystemEntry, Entry("user", <<"a", "b">>), Entry("agent", <<"c">>)>>
  /\ currentInputTranscription = <<>>
  /\ currentOutputTranscription = <<>>

\* handleStartListening is called
StartStep == ToggleStart(MaxStarts)

\* C12: the transcript buffers are empty entering a new turn: after a
\* TurnComplete, after an Interrupted and after a start both buffers are empty.
C12_BuffersEmptyEnteringTurn ==
  [][(TurnCompleteStep \/ InterruptedStep \/ StartStep) =>
       /\ currentInputTranscription' = <<>>
       /\ currentOutputTranscription' = <<>>]_vars

\* C13: the transcript history is append-only: over every step, also a start, a
\* stop and the closing and opening of the assistant panel, each entry stays at
\* its place with its speaker and text, and entries are added only by a
\* TurnComplete.
C13_HistoryAppendOnly ==
  [][/\ Len(transcriptionHistory') >= Len(transcriptionHistory)
     /\ SubSeq(transcriptionHistory', 1, Len(transcriptionHistory)) = transcriptionHistory
     /\ transcriptionHistory' # transcriptionHistory => TurnCompleteStep]_vars

\* ------------------------------------------------- status
\* C14: in Listening an AudioChunk or a fragment of the agent moves the status to
\* Processing; in Processing a TurnComplete or an Interrupted moves it to
\* Listening, and an Interrupted also flushes the playback (no active handle,
\* cursor 0); a fragment of the user or a tool call request alone leaves the
\* status as it is.
C14_StatusTransitions ==
  [][\A i \in Invocations, m \in StatusMessages :
       onmessage(i, m) =>
         /\ (assistantStatus = "listening" /\ (m.part = "audio" \/ m.hasOut))
              => assistantStatus' = "processing"
         /\ (assistantStatus = "processing" /\ (m.tc \/ m.intr))
              => assistantStatus' = "listening"
         /\ m.intr => outputSourcesRef' = {} /\ nextStartTimeRef' = 0
         /\ (m.hasIn \/ m.calls # <<>>) => assistantStatus' = assistantStatus]_vars

\* a fragment of the agent moved the status to Processing and the TurnComplete
\* moved it back to Listening
C14_Witness ==
  /\ heard = <<"agent", "turnComplete">>
  /\ assistantStatus = "listening"
  /\ transcriptionHistory = <<SystemEntry, Entry("agent", <<"c">>)>>

\* ------------------------------------------------- resources and status
\* C15: the session holds a transport handle only while Listening or Processing:
\* in every reachable state with status idle no session promise is held and no
\* transport session is open.
C15_IdleHoldsNoTransport ==
  assistantStatus = "idle" => sessionPromiseRef = NullRef /\ OpenSessions = {}

\* C16: right after every start that moves the status to listening, also one
\* that follows an error with no stop in between, both transcript buffers are
\* empty, the playback cursor is 0 and the active playback set is empty.
C16_StartResetsAll ==
  [][(StartStep /\ assistantStatus' = "listening") =>
       /\ currentInputTranscription' = <<>>
       /\ currentOutputTranscription' = <<>>
       /\ nextStartTimeRef' = 0
       /\ outputSourcesRef' = {}]_vars

\* C17: a start that cannot acquire the microphone (getUserMedia rejects) or finds
\* no Web Audio API ends with status idle and an error message set, holds no
\* media stream and opens no transport session, then and ever after.
C17_CaptureFailureReleases ==
  [][/\ \A i \in Invocations :
          GumReject(i) =>
            /\ assistantStatus' = "idle" /\ error' # "null"
            /\ stream'[i] = "none" /\ sess'[i] = "none"
            /\ mediaStreamRef' # i /\ sessionPromiseRef' # i
     /\ (StartStep /\ ~webAudio) =>
          /\ assistantStatus' = "idle" /\ error' # "null"
          /\ startPc'[nStarts'] = "done"
          /\ stream'[nStarts'] = "none" /\ sess'[nStarts'] = "none"
     /\ \A i \in Invocations :
          (startPc[i] = "done" /\ stream[i] = "none") =>
            stream'[i] = "none" /\ sess'[i] = "none"]_vars

\* the microphone was refused: the start is over with the error set, the status
\* idle, no stream and no session
C17_Witness ==
  /\ error = "mic" /\ assistantStatus = "idle"
  /\ startPc[1] = "done" /\ stream[1] = "none" /\ sess[1] = "none"
  /\ mediaStreamRef = NullRef /\ sessionPromiseRef = NullRef

\* C18 as stated: on every step the playback cursor does not decrease, except
\* that the handling of an Interrupted event sets it to 0.
C18_CursorMonotone ==
  [][\/ nextStartTimeRef' >= nextStartTimeRef
     \/ InterruptedStep /\ nextStartTimeRef' = 0]_vars

\* a stop of the session: the toggle while a session runs, or the unmount
StopStep == ToggleStop \/ Unmount

\* C18: on every step the playback cursor does not decrease, except that it is
\* set to 0 by the handling of an Interrupted event and by a stop of the session
\* (both flush the playback through stopAudioPlayback).
C18_CursorMonotoneOrFlushed ==
  [][\/ nextStartTimeRef' >= nextStartTimeRef
     \/ InterruptedStep /\ nextStartTimeRef' = 0
     \/ StopStep /\ nextStartTimeRef' = 0]_vars

\* two chunks were scheduled one after the other and the cursor stands at the end
\* of the second, ahead of the clock
C18_Witness ==
  /\ nextStartTimeRef >= 3
  /\ nextStartTimeRef > currentTime
  /\ \E a, b \in outputSourcesRef :
       a.start + a.dur = b.start /\ b.start + b.dur = nextStartTimeRef

\* C19: every audio chunk of duration d is started at max(cursor, now), now being
\* the clock reading its handler took, and leaves the cursor at that start plus
\* d; so the chunks of a burst are scheduled end to start.
C19_StartIsMaxOfCursorAndClock ==
  [][DecodeDone =>
       LET item == Head(pendingDecode)
           startAt == Max(nextStartTimeRef, item.now)
       IN /\ \E source \in outputSourcesRef' :
               source.start = startAt /\ source.dur = item.dur
          /\ nextStartTimeRef' = startAt + item.dur]_vars

\* the frames on the wire of a session are in capture order, none twice
InCaptureOrder(w) == \A a, b \in DOMAIN w : a < b => w[a] < w[b]

\* C20: the frames on the wire of every session are in capture order, no frame is
\* on the wire twice, and a frame captured while the session held by the
\* component is open is sent in the same step; and server events take effect in
\* arrival order: no event is handled to its end while the handler of an event
\* that arrived before it has still to apply its effect.
C20_FramesAndEventsInOrder ==
  [][/\ \A i \in Invocations : InCaptureOrder(wire'[i])
     /\ \A i, j \in Invocations :
          i # j => \A a \in DOMAIN wire'[i], b \in DOMAIN wire'[j] :
                     wire'[i][a] # wire'[j][b]
     /\ \A p \in Invocations :
          (/\ onaudioprocess(p, Silence)
           /\ sessionPromiseRef # NullRef
           /\ sess[sessionPromiseRef] = "open") =>
            wire'[sessionPromiseRef] = Append(wire[sessionPromiseRef], nFrames')
     /\ \A i \in Invocations, m \in PlaybackMessages :
          (onmessage(i, m) /\ m.part # "audio") => pendingDecode = <<>>]_vars

\* C21: a server event whose model-turn part has no inline audio data is skipped:
\* handling it leaves the status, the cursor, the active set, the suspended chunk
\* handlers, both transcript buffers and the history as they were, and the session
\* stays open.
C21_MalformedEventSkipped ==
  [][\A i \in Invocations, m \in MalformedMessages :
       onmessage(i, m) =>
         /\ assistantStatus' = assistantStatus
         /\ nextStartTimeRef' = nextStartTimeRef
         /\ outputSourcesRef' = outputSourcesRef
         /\ pendingDecode' = pendingDecode
         /\ currentInputTranscription' = currentInputTranscription
         /\ currentOutputTranscription' = currentOutputTranscription
         /\ transcriptionHistory' = transcriptionHistory
         /\ sess'[i] = "open"]_vars

\* C22: every sample x of the last captured buffer (held in units of 1/65536, so
\* that x * 32768 is half the held number) is encoded as x * 32768 cut toward
\* zero and stored without clamping: the result is a 16-bit signed integer
\* congruent to the cut product modulo 2^16, so 0.5 gives 16384, -1.0 gives
\* -32768, and 1.0, whose product 32768 is outside the 16-bit range, gives -32768.
C22_EncodeTruncatesAndWraps ==
  /\ DOMAIN int16 = DOMAIN inputData
  /\ \A k \in DOMAIN inputData :
       LET x == inputData[k]
           y == int16[k]
       IN /\ y \in -32768..32767
          /\ \E t \in {(x \div 2) - 1, x \div 2, (x \div 2) + 1} :
               /\ (x >= 0 => 2 * t <= x /\ x < 2 * (t + 1))
               /\ (x < 0 => 2 * (t - 1) < x /\ x <= 2 * t)
               /\ (y - t) % 65536 = 0
          /\ (x = 32768 => y = 16384)
          /\ (x = -65536 => y = -32768)
          /\ (x = 65536 => y = -32768)
          /\ (x >= 65536 => y # x \div 2)

\* a buffer with the sample 1.0 was captured and sent on the open session
C22_Witness ==
  /\ \E k \in DOMAIN inputData : inputData[k] = 2 * Scale /\ int16[k] = -Scale
  /\ \E i \in Invocations : sess[i] = "open" /\ wire[i] # <<>>

\* C25: once the status of the mounted component is idle no server event changes
\* it: the handling of a message in status idle leaves the status idle.
C25_IdleIgnoresServerEvents ==
  [][(/\ mounted
      /\ assistantStatus = "idle"
      /\ \E i \in Invocations, m \in PlaybackMessages : onmessage(i, m)) =>
       assistantStatus' = "idle"]_vars

\* close was requested on session r: session.close() was called, or the call is
\* queued on the pending promise
CloseRequested(r) ==
  closes[r] > 0 \/ \E k \in DOMAIN sessQ[r] : sessQ[r][k].k = "close"
\* a step that hands a send to the session promise: a captured frame, or the
\* response to a tool call
SendStep ==
  \/ \E p \in Invocations : onaudioprocess(p, Silence)
  \/ \E i \in Invocations, m \in SendMessages : onmessage(i, m)

appView == <<activeApp, interactionHistory, currentAppPath, llmContent>>

\* C23: a closeApp tool call closes the app that is active at the time of the
\* call, whether it was opened before or after the session started, and returns
\* 'Closing <name>.'; only when no app is open at the time of the call does it
\* return 'No active app to close.' and change nothing.
C23_CloseAppClosesActive ==
  [][\A i \in Invocations, fc \in ToolCalls :
       (fc.name = "closeApp" /\ onmessage(i, ToolCallRequest(<<fc>>))) =>
         IF activeApp # 0
         THEN /\ CapabilityResult(fc, capApp[i]) = Result("closing", AppNameOf(activeApp))
              /\ closeTimers' = closeTimers + 1
         ELSE /\ CapabilityResult(fc, capApp[i]) = Result("noActiveApp", <<>>)
              /\ UNCHANGED <<appView, closeTimers>>]_vars

\* C24: openAppByName(name) finds the app by its name, trimmed and in lower
\* case; when no app matches, or the match is the app active at the time of the
\* call, it leaves the active app, the history, the path and the content as they
\* are and returns the not-found or the already-open string; otherwise the match
\* becomes the active app, the history is the single app_open interaction and
\* the 'Opening' string is returned.
C24_OpenAppByName ==
  [][\A i \in Invocations, fc \in ToolCalls :
       (fc.name = "openApp" /\ onmessage(i, ToolCallRequest(<<fc>>))) =>
         LET app == FindApp(fc.args)
             res == CapabilityResult(fc, capApp[i])
         IN IF app = 0
            THEN res = Result("notFound", fc.args) /\ UNCHANGED appView
            ELSE IF app = activeApp
            THEN res = Result("alreadyOpen", fc.args) /\ UNCHANGED appView
            ELSE /\ res = Result("opening", fc.args)
                 /\ activeApp' = app
                 /\ interactionHistory' = <<AppOpenInteraction(app)>>]_vars

\* ------------------------------------------------- the app window
\* The desktop, the window of the active app, the parameters panel and the
\* streams of the content requests; the assistant is not opened
HistoryLengths == 0..MaxLength
NextApp ==
  \/ \E app \in AppIds : DesktopOpen(app)
  \/ CloseApp
  \/ CloseTimerFires
  \/ \E id \in InteractionIds : Interaction(id)
  \/ ToggleParameters
  \/ \E n \in HistoryLengths : handleUpdateHistoryLength(n)
  \/ \E enabled \in BOOLEAN : handleSetStatefulness(enabled)
  \/ \E r \in Requests : StreamChunk(r)
  \/ \E r \in Requests : StreamEnd(r)
  \/ \E r \in Requests : StreamFail(r)
SpecApp == Init /\ [][NextApp]_vars

\* C27: an app opened after the close of another app was requested and before
\* the 500 ms reset of that close has fired stays the active app, with its
\* history and its path, when the reset fires.
C27_OpenSurvivesPendingClose ==
  [][(CloseTimerFires /\ activeApp # 0 /\ activeApp # Head(closing)) =>
       UNCHANGED <<activeApp, interactionHistory, currentAppPath>>]_vars

\* ------------------------------------------------- the content cache
\* App opens, interactions, the streams of the requests and the statefulness
\* switch of the parameters panel
NextCache ==
  \/ \E app \in AppIds : DesktopOpen(app)
  \/ \E id \in InteractionIds : Interaction(id)
  \/ ToggleParameters
  \/ \E enabled \in BOOLEAN : handleSetStatefulness(enabled)
  \/ \E r \in Requests : StreamChunk(r)
  \/ \E r \in Requests : StreamEnd(r)
  \/ \E r \in Requests : StreamFail(r)
SpecCache == Init /\ [][NextCache]_vars

\* C30: whenever statefulness is disabled the content cache is empty.
C30_CacheEmptyWhenStateless == ~isStatefulnessEnabled => appContentCache = {}

\* statefulness was switched off with entries in the cache, the cache is empty,
\* and content that the effect would cache is on display and is not cached
C30_Witness ==
  /\ ~isStatefulnessEnabled
  /\ dropped > 0
  /\ appContentCache = {}
  /\ ~isLoading /\ currentAppPath # <<>> /\ llmContent # <<>>

\* ------------------------------------------------- overlapping requests
\* request r was superseded: a later request is the most recent one, and its
\* stream has not finished
Superseded(r) == r < nRequests /\ streamPc[nRequests] = "streaming"

\* C28: while the most recent content request is streaming, a chunk, the end or
\* the failure of an earlier request that is still delivering changes nothing of
\* the displayed content, and isLoading stays true.
C28_OnlyLatestRequestShown ==
  [][\A r \in Requests :
       (Superseded(r) /\ (StreamChunk(r) \/ StreamEnd(r) \/ StreamFail(r))) =>
         /\ llmContent' = llmContent
         /\ isLoading => isLoading']_vars

\* ------------------------------------------------- the interaction history
\* C29: after any sequence of app opens, interactions and changes of the history
\* length the interaction history holds at most currentMaxHistoryLength entries.
C29_HistoryBounded == Len(interactionHistory) <= currentMaxHistoryLength
====
